---- MODULE Spec2Model ----
(***************************************************************************)
(* BikeWatch (src/src/routes/+page.svelte): the temporal traffic          *)
(* aggregation of the page component.  Trips are bucketed by minute of    *)
(* day at load time; the time slider selects a circular two-hour window   *)
(* of buckets; d3.rollup counts trips per station; the traffic view joins *)
(* the counts onto the station registry.                                  *)
(*                                                                         *)
(* JavaScript arrays are modelled as sequences: the element at JavaScript *)
(* index i is the element at position i + 1.  A Map is modelled as a      *)
(* function whose domain is the set of keys.                              *)
(***************************************************************************)
EXTENDS Integers, Sequences, FiniteSets, TLC

VARIABLES
    pc,                 \* position of the onMount callback (lines 174-183)
    stations,           \* line 10
    trips,              \* line 11
    arrivals,           \* line 12
    departures,         \* line 13
    timeFilter,         \* line 16
    departuresByMinute, \* line 18
    arrivalsByMinute,   \* line 19
    filteredDepartures, \* line 24, reactive
    filteredArrivals,   \* line 28, reactive
    filteredStations,   \* line 32, reactive
    data,               \* line 129, the rows d3.csv delivered to loadStationDemand
    consoleErrors,      \* messages written by console.error (lines 122, 170)
    selMinute,          \* argument of a direct call of filterByMinute
    selOutcome,         \* "pending" | "returned" | "threw"
    selResult           \* value that call returned

vars == <<pc, stations, trips, arrivals, departures, timeFilter,
          departuresByMinute, arrivalsByMinute, filteredDepartures,
          filteredArrivals, filteredStations, data, consoleErrors,
          selMinute, selOutcome, selResult>>

(***************************************************************************)
(* Program constants                                                       *)
(***************************************************************************)
MinutesPerDay == 1440
HalfWidth == 60
Unfiltered == -1
SliderMin == -1
SliderMax == 1440
\* getHours()/getMinutes() of an Invalid Date are NaN; NaN is modelled as an
\* integer that is no index of any array.
NaN == -1000000

(***************************************************************************)
(* Bounds of the model                                                     *)
(***************************************************************************)
MaxTrips == 2
OutOfRangeSpan == 1500

(***************************************************************************)
(* JavaScript helpers                                                      *)
(***************************************************************************)
\* a % n of JavaScript: the remainder takes the sign of the dividend.
JSMod(a, n) == IF a >= 0 THEN a % n ELSE 0 - ((0 - a) % n)

Min2(a, b) == IF a < b THEN a ELSE b
Max2(a, b) == IF a > b THEN a ELSE b

\* Array.prototype.slice(start, end): negative arguments count from the end,
\* both are clamped to [0, length]; an empty range gives [].
RelIndex(len, i) == IF i < 0 THEN Max2(len + i, 0) ELSE Min2(i, len)
Slice(arr, start, end) ==
    LET from == RelIndex(Len(arr), start)
        to   == RelIndex(Len(arr), end)
    IN  IF from >= to THEN <<>> ELSE SubSeq(arr, from + 1, to)
SliceFrom(arr, start) == Slice(arr, start, Len(arr))

\* Array.prototype.flat() on an array of arrays: the elements of the inner
\* arrays in order.  Empty inner arrays contribute nothing, so they are left
\* out first; the rest is concatenated by halves.
RECURSIVE Concat(_)
Concat(arrs) ==
    IF Len(arrs) = 0 THEN <<>>
    ELSE IF Len(arrs) = 1 THEN arrs[1]
    ELSE LET half == Len(arrs) \div 2
         IN  Concat(SubSeq(arrs, 1, half)) \o Concat(SubSeq(arrs, half + 1, Len(arrs)))
NonEmpty(arr) == arr # <<>>
Flat(arrs) == Concat(SelectSeq(arrs, NonEmpty))

\* arr[i] is undefined when i is no index of arr (in particular for NaN).
HasIndex(arr, i) == (i + 1) \in DOMAIN arr
Push(arr, i, x) == [arr EXCEPT ![i + 1] = Append(@, x)]

\* Array.from({length: n}, () => [])
ArrayOfEmpty(n) == [i \in 1..n |-> <<>>]

EmptyMap == [k \in {} |-> 0]
\* map.get(id) ?? 0
GetOrZero(map, id) == IF id \in DOMAIN map THEN map[id] ELSE 0

\* The key functions d => d.start_station_id and d => d.end_station_id, given
\* by the name of the column they read.
\* Variant: the departures are keyed by the wrong column.
start_station_id_wrongColumn == "end_station_id"
start_station_id == "start_station_id"
end_station_id == "end_station_id"

\* d3.rollup(values, v => v.length, d => d[key])
rollup(values, key) ==
    [k \in {values[i][key] : i \in DOMAIN values} |->
        Cardinality({i \in DOMAIN values : values[i][key] = k})]

(***************************************************************************)
(* Timestamps                                                              *)
(***************************************************************************)
\* new Date(text): a parseable text gives a date with its wall-clock fields,
\* any other text gives Invalid Date.
InvalidDate == [valid |-> FALSE, hours |-> NaN, minutes |-> NaN]
NewDate(text) ==
    IF text.parseable
    THEN [valid |-> TRUE, hours |-> text.hh, minutes |-> text.mm]
    ELSE InvalidDate

\* Variant: the minutes of the hour are dropped.
minutesSinceMidnight_hoursOnly(date) ==
    IF date.valid THEN date.hours * 60 ELSE NaN

minutesSinceMidnight(date) ==
    IF date.valid THEN date.hours * 60 + date.minutes ELSE NaN

(***************************************************************************)
(* Window selection (lines 60-74)                                          *)
(***************************************************************************)
\* Variant: the lower end is not brought back into [0, 1439].
filterByMinute_noWrapMin(allTrips, tripsByMinute, minute) ==
    IF minute = -1 THEN allTrips
    ELSE LET minMinute == JSMod(minute - HalfWidth, MinutesPerDay)
             maxMinute == JSMod(minute + HalfWidth, MinutesPerDay)
         IN  IF minMinute > maxMinute
             THEN Flat(SliceFrom(tripsByMinute, minMinute)
                       \o Slice(tripsByMinute, 0, maxMinute + 1))
             ELSE Flat(Slice(tripsByMinute, minMinute, maxMinute + 1))

\* Variant: the upper end is not brought back into [0, 1439].
filterByMinute_noWrapMax(allTrips, tripsByMinute, minute) ==
    IF minute = -1 THEN allTrips
    ELSE LET minMinute == JSMod(minute - HalfWidth + MinutesPerDay, MinutesPerDay)
             maxMinute == minute + HalfWidth
         IN  IF minMinute > maxMinute
             THEN Flat(SliceFrom(tripsByMinute, minMinute)
                       \o Slice(tripsByMinute, 0, maxMinute + 1))
             ELSE Flat(Slice(tripsByMinute, minMinute, maxMinute + 1))

\* Variant: the slices leave out the bucket of the upper end.
filterByMinute_exclusiveEnd(allTrips, tripsByMinute, minute) ==
    IF minute = -1 THEN allTrips
    ELSE LET minMinute == JSMod(minute - HalfWidth + MinutesPerDay, MinutesPerDay)
             maxMinute == JSMod(minute + HalfWidth, MinutesPerDay)
         IN  IF minMinute > maxMinute
             THEN Flat(SliceFrom(tripsByMinute, minMinute)
                       \o Slice(tripsByMinute, 0, maxMinute))
             ELSE Flat(Slice(tripsByMinute, minMinute, maxMinute))

\* Variant: the part after midnight is put first.
filterByMinute_afterFirst(allTrips, tripsByMinute, minute) ==
    IF minute = -1 THEN allTrips
    ELSE LET minMinute == JSMod(minute - HalfWidth + MinutesPerDay, MinutesPerDay)
             maxMinute == JSMod(minute + HalfWidth, MinutesPerDay)
         IN  IF minMinute > maxMinute
             THEN Flat(Slice(tripsByMinute, 0, maxMinute + 1)
                       \o SliceFrom(tripsByMinute, minMinute))
             ELSE Flat(Slice(tripsByMinute, minMinute, maxMinute + 1))

\* allTrips is the component's variable trips, which the function reads.
filterByMinute(allTrips, tripsByMinute, minute) ==
    IF minute = -1 THEN allTrips
    ELSE LET minMinute == JSMod(minute - HalfWidth + MinutesPerDay, MinutesPerDay)
             maxMinute == JSMod(minute + HalfWidth, MinutesPerDay)
         IN  IF minMinute > maxMinute
             THEN LET beforeMidnight == SliceFrom(tripsByMinute, minMinute)
                      afterMidnight  == Slice(tripsByMinute, 0, maxMinute + 1)
                  IN  Flat(beforeMidnight \o afterMidnight)
             ELSE Flat(Slice(tripsByMinute, minMinute, maxMinute + 1))

(***************************************************************************)
(* Reactive declarations (lines 24-42), as functions of the current state  *)
(***************************************************************************)
\* Variant: clearing the filter keeps the map of the last window.
filteredDeparturesOf_keepsLast(tf, deps, byMinute, allTrips) ==
    IF tf = Unfiltered
    THEN filteredDepartures
    ELSE rollup(filterByMinute(allTrips, byMinute, tf), start_station_id)

filteredDeparturesOf(tf, deps, byMinute, allTrips) ==
    IF tf = Unfiltered
    THEN deps
    ELSE rollup(filterByMinute(allTrips, byMinute, tf), start_station_id)

filteredArrivalsOf(tf, arrs, byMinute, allTrips) ==
    IF tf = Unfiltered
    THEN arrs
    ELSE rollup(filterByMinute(allTrips, byMinute, tf), end_station_id)

\* Variant: the total leaves out the departures.
TrafficRecord_arrivalsOnly(station, arr, dep) ==
    [station EXCEPT !.arrivals = arr, !.departures = dep, !.totalTraffic = arr]

TrafficRecord(station, arr, dep) ==
    [station EXCEPT !.arrivals = arr, !.departures = dep,
                    !.totalTraffic = arr + dep]

filteredStationsOf(sts, fArr, fDep) ==
    [i \in DOMAIN sts |->
        TrafficRecord(sts[i], GetOrZero(fArr, sts[i].id), GetOrZero(fDep, sts[i].id))]

\* Svelte runs the reactive declarations in dependency order once a variable
\* they read has been assigned: the arguments are the values after the
\* assignment.
Flush(tf, sts, allTrips, arrs, deps, depByMinute, arrByMinute) ==
    LET fDep == filteredDeparturesOf(tf, deps, depByMinute, allTrips)
        fArr == filteredArrivalsOf(tf, arrs, arrByMinute, allTrips)
    IN  /\ filteredDepartures' = fDep
        /\ filteredArrivals' = fArr
        /\ filteredStations' = filteredStationsOf(sts, fArr, fDep)

(***************************************************************************)
(* Inputs                                                                  *)
(***************************************************************************)
Clock(h, m) == [parseable |-> TRUE, hh |-> h, mm |-> m]
Garbage == [parseable |-> FALSE, hh |-> 0, mm |-> 0]

StationCsv ==
    << [Number |-> "A", NAME |-> "Station A", Lat |-> 42, Long |-> 0 - 71],
       [Number |-> "B", NAME |-> "Station B", Lat |-> 43, Long |-> 0 - 72] >>

Ride(id, s, e, t0, t1) ==
    [ride_id |-> id, start_station_id |-> s, end_station_id |-> e,
     started_at |-> t0, ended_at |-> t1]

\* Rows a trip file may hold.  "X" is a station id the registry does not hold;
\* r1 and r2 fall into the same buckets; r3 and r5 carry a timestamp that
\* new Date cannot parse.
TripPool ==
    << Ride("r1", "A", "B", Clock(8, 5), Clock(8, 20)),
       Ride("r2", "A", "B", Clock(8, 5), Clock(8, 20)),
       Ride("r3", "B", "A", Clock(8, 50), Garbage),
       Ride("r4", "A", "A", Clock(23, 50), Clock(0, 10)),
       Ride("r5", "B", "A", Garbage, Clock(8, 30)),
       Ride("r6", "X", "X", Clock(0, 0), Clock(0, 58)) >>

Increasing(s) == \A i \in DOMAIN s : \A j \in DOMAIN s : i < j => s[i] < s[j]
Picks ==
    UNION {{s \in [1..n -> DOMAIN TripPool] : Increasing(s)} : n \in 0..MaxTrips}
TripCsvs == {[i \in DOMAIN s |-> TripPool[s[i]]] : s \in Picks}

(***************************************************************************)
(* Initial state                                                           *)
(***************************************************************************)
InitPage ==
    /\ stations = <<>>
    /\ trips = <<>>
    /\ arrivals = EmptyMap
    /\ departures = EmptyMap
    /\ timeFilter = -1
    /\ departuresByMinute = ArrayOfEmpty(MinutesPerDay)
    /\ arrivalsByMinute = ArrayOfEmpty(MinutesPerDay)
    /\ filteredDepartures = EmptyMap
    /\ filteredArrivals = EmptyMap
    /\ filteredStations = <<>>
    /\ data = <<>>
    /\ consoleErrors = {}

Init ==
    /\ InitPage
    /\ pc = "initMap"
    /\ selMinute = -1
    /\ selOutcome = "pending"
    /\ selResult = <<>>

selVars == <<selMinute, selOutcome, selResult>>

(***************************************************************************)
(* onMount (lines 174-183)                                                 *)
(***************************************************************************)
initMap ==
    /\ pc = "initMap"
    /\ pc' = "loadStationData"
    /\ UNCHANGED <<stations, trips, arrivals, departures, timeFilter,
                   departuresByMinute, arrivalsByMinute, filteredDepartures,
                   filteredArrivals, filteredStations, data, consoleErrors>>
    /\ UNCHANGED selVars

\* lines 107-124
StationOf(row) ==
    [id |-> row.Number, name |-> row.NAME, Lat |-> row.Lat, Long |-> row.Long,
     arrivals |-> 0, departures |-> 0, totalTraffic |-> 0]

loadStationData ==
    /\ pc = "loadStationData"
    /\ pc' = "loadStationDemand"
    /\ \/ /\ stations' = [i \in DOMAIN StationCsv |-> StationOf(StationCsv[i])]
          /\ filteredStations' =
                filteredStationsOf(stations', filteredArrivals, filteredDepartures)
          /\ UNCHANGED <<filteredDepartures, filteredArrivals>>
          /\ UNCHANGED consoleErrors
       \/ /\ consoleErrors' = consoleErrors \cup {"Error loading station data:"}
          /\ UNCHANGED <<stations, filteredDepartures, filteredArrivals,
                         filteredStations>>
    /\ UNCHANGED <<trips, arrivals, departures, timeFilter, departuresByMinute,
                   arrivalsByMinute, data>>
    /\ UNCHANGED selVars

\* Variant: a row without a bucket is skipped instead of ending the loop.
RECURSIVE Bucketed_skipsBadRows(_, _)
Bucketed_skipsBadRows(rows, acc) ==
    IF rows = <<>> THEN acc
    ELSE LET trip == [Head(rows) EXCEPT !.started_at = NewDate(@),
                                        !.ended_at = NewDate(@)]
             startedMinutes == minutesSinceMidnight(trip.started_at)
             endedMinutes   == minutesSinceMidnight(trip.ended_at)
         IN  IF ~HasIndex(acc.dep, startedMinutes) \/ ~HasIndex(acc.arr, endedMinutes)
             THEN Bucketed_skipsBadRows(Tail(rows), acc)
             ELSE Bucketed_skipsBadRows(Tail(rows),
                      [acc EXCEPT !.dep = Push(acc.dep, startedMinutes, trip),
                                  !.arr = Push(acc.arr, endedMinutes, trip),
                                  !.trips = Append(@, trip)])

\* lines 132-142: the loop over the rows.  The result holds the buckets as the
\* loop left them, the rows with their dates converted, and whether a push on
\* an undefined bucket threw.
RECURSIVE Bucketed(_, _)
Bucketed(rows, acc) ==
    IF rows = <<>> THEN acc
    ELSE LET trip == [Head(rows) EXCEPT !.started_at = NewDate(@),
                                        !.ended_at = NewDate(@)]
             startedMinutes == minutesSinceMidnight(trip.started_at)
             endedMinutes   == minutesSinceMidnight(trip.ended_at)
         IN  IF ~HasIndex(acc.dep, startedMinutes)
             THEN [acc EXCEPT !.threw = TRUE]
             ELSE LET dep1 == Push(acc.dep, startedMinutes, trip)
                  IN  IF ~HasIndex(acc.arr, endedMinutes)
                      THEN [acc EXCEPT !.dep = dep1, !.threw = TRUE]
                      ELSE Bucketed(Tail(rows),
                                    [acc EXCEPT !.dep = dep1,
                                                !.arr = Push(acc.arr, endedMinutes, trip),
                                                !.trips = Append(@, trip)])

\* lines 157-163
WithTotals(station, arrMap, depMap) ==
    [station EXCEPT !.arrivals = GetOrZero(arrMap, station.id),
                    !.departures = GetOrZero(depMap, station.id),
                    !.totalTraffic = GetOrZero(arrMap, station.id)
                                     + GetOrZero(depMap, station.id)]

\* lines 126-172
loadStationDemand ==
    /\ pc = "loadStationDemand"
    /\ pc' = "done"
    /\ \/ \E rows \in TripCsvs :
            LET done == Bucketed(rows, [dep |-> departuresByMinute,
                                        arr |-> arrivalsByMinute,
                                        trips |-> <<>>, threw |-> FALSE])
            IN  /\ data' = rows
                /\ departuresByMinute' = done.dep
                /\ arrivalsByMinute' = done.arr
                /\ IF done.threw
                   THEN /\ consoleErrors' =
                              consoleErrors \cup {"Error loading station demand:"}
                        /\ UNCHANGED <<trips, departures, arrivals, stations,
                                       filteredDepartures, filteredArrivals,
                                       filteredStations>>
                   ELSE LET deps == rollup(done.trips, start_station_id)
                            arrs == rollup(done.trips, end_station_id)
                            sts  == [i \in DOMAIN stations |->
                                        WithTotals(stations[i], arrs, deps)]
                        IN  /\ trips' = done.trips
                            /\ departures' = deps
                            /\ arrivals' = arrs
                            /\ stations' = sts
                            /\ UNCHANGED consoleErrors
                            /\ Flush(timeFilter, sts, done.trips, arrs, deps,
                                     done.dep, done.arr)
       \/ \* d3.csv rejects: nothing was fetched
          /\ consoleErrors' = consoleErrors \cup {"Error loading station demand:"}
          /\ UNCHANGED <<data, departuresByMinute, arrivalsByMinute, trips,
                         departures, arrivals, stations, filteredDepartures,
                         filteredArrivals, filteredStations>>
    /\ UNCHANGED timeFilter
    /\ UNCHANGED selVars

(***************************************************************************)
(* The time slider (line 190): bind:value assigns timeFilter                *)
(***************************************************************************)
\* Values one input event can bring from the current one: an arrow key, Home,
\* End, or a click on the track.  Every value of the slider is reachable.
SliderTargets(v) ==
    ({v - 1, v + 1, SliderMin, SliderMax} \cap (SliderMin..SliderMax)) \ {v}

setTimeFilter ==
    \E v \in SliderTargets(timeFilter) :
        /\ timeFilter' = v
        /\ UNCHANGED <<pc, stations, trips, arrivals, departures,
                       departuresByMinute, arrivalsByMinute, data, consoleErrors>>
        /\ Flush(v, stations, trips, arrivals, departures,
                 departuresByMinute, arrivalsByMinute)
        /\ UNCHANGED selVars

Next == initMap \/ loadStationData \/ loadStationDemand \/ setTimeFilter

Spec == Init /\ [][Next]_vars

(***************************************************************************)
(* filterByMinute called on its own: every bucket holds its own index, so  *)
(* the result lists the indices of the buckets the call selected.          *)
(***************************************************************************)
FilterArgs == (SliderMin - OutOfRangeSpan)..(SliderMax + OutOfRangeSpan)
MinuteMarkers == [i \in 1..MinutesPerDay |-> <<i - 1>>]

InitSel ==
    /\ InitPage
    /\ pc = "initMap"
    /\ selMinute \in FilterArgs
    /\ selOutcome = "pending"
    /\ selResult = <<>>

\* No path of lines 60-74 throws: every call returns.
callFilterByMinute ==
    /\ selOutcome = "pending"
    /\ selResult' = filterByMinute(trips, MinuteMarkers, selMinute)
    /\ selOutcome' = "returned"
    /\ UNCHANGED <<pc, stations, trips, arrivals, departures, timeFilter,
                   departuresByMinute, arrivalsByMinute, filteredDepartures,
                   filteredArrivals, filteredStations, data, consoleErrors,
                   selMinute>>

NextSel == callFilterByMinute

SpecSel == InitSel /\ [][NextSel]_vars

(***************************************************************************)
(* Vocabulary of the properties                                            *)
(***************************************************************************)
DemandError == "Error loading station demand:"
\* loadStationDemand ran to its end without entering its catch block.
Loaded == pc = "done" /\ DemandError \notin consoleErrors

MinuteOf(date) == date.hours * 60 + date.minutes
\* t lies in the circular window from (m - 60) mod 1440 to (m + 60) mod 1440.
InWindow(t, m) ==
    ((t - m + HalfWidth + 2 * MinutesPerDay) % MinutesPerDay) <= 2 * HalfWidth

DepartingIn(m) == {i \in DOMAIN trips : InWindow(MinuteOf(trips[i].started_at), m)}
ArrivingIn(m) == {i \in DOMAIN trips : InWindow(MinuteOf(trips[i].ended_at), m)}
StartCounts(S) ==
    [k \in {trips[i].start_station_id : i \in S} |->
        Cardinality({i \in S : trips[i].start_station_id = k})]
EndCounts(S) ==
    [k \in {trips[i].end_station_id : i \in S} |->
        Cardinality({i \in S : trips[i].end_station_id = k})]

\* All trips a bucket array holds, bucket after bucket, and how often trip t
\* is among them.
Contents(byMinute) == Flat(byMinute)
Occurrences(all, t) == Cardinality({p \in DOMAIN all : all[p] = t})
\* How often trip t is in the bucket of minute m.
InBucket(byMinute, m, t) ==
    Cardinality({p \in DOMAIN byMinute[m + 1] : byMinute[m + 1][p] = t})

RegistryIds == {stations[i].id : i \in DOMAIN stations}
Ascending(a, b) == [i \in 1..(b - a + 1) |-> a + i - 1]

(***************************************************************************)
(* C1: after a completed load and for every centre minute m in 0..1439,   *)
(* the filtered departures map holds, per start station, the number of    *)
(* trips whose start minute lies in the circular window around m, the     *)
(* filtered arrivals map the same with end minute and end station, and    *)
(* stations without such a trip are absent.  Minute 0 lies in the window  *)
(* of 23:59 and 23:50 does not lie in the window of 08:00.                *)
(***************************************************************************)
C1_WindowCounts ==
    /\ InWindow(0, 1439)
    /\ ~InWindow(1430, 480)
    /\ (Loaded /\ timeFilter \in 0..(MinutesPerDay - 1)) =>
          /\ filteredDepartures = StartCounts(DepartingIn(timeFilter))
          /\ filteredArrivals = EndCounts(ArrivingIn(timeFilter))

C1_Witness ==
    /\ Loaded
    /\ timeFilter = 1439
    /\ \E i \in DOMAIN trips :
          /\ MinuteOf(trips[i].started_at) = 0
          /\ trips[i].start_station_id \in DOMAIN filteredDepartures
          /\ trips[i].end_station_id \in DOMAIN filteredArrivals

(***************************************************************************)
(* C2: for every centre minute m in 0..1439 filterByMinute selects exactly *)
(* 121 bucket indices, all in 0..1439 and none twice.                      *)
(***************************************************************************)
C2_WindowSize ==
    (selOutcome = "returned" /\ selMinute \in 0..(MinutesPerDay - 1)) =>
        /\ Len(selResult) = 2 * HalfWidth + 1
        /\ \A i \in DOMAIN selResult : selResult[i] \in 0..(MinutesPerDay - 1)
        /\ \A i \in DOMAIN selResult : \A j \in DOMAIN selResult :
              selResult[i] = selResult[j] => i = j

C2_Witness ==
    /\ selOutcome = "returned"
    /\ selMinute = 700
    /\ Len(selResult) = 121

(***************************************************************************)
(* C3 as stated: centre 0 selects 1380..1439 followed by 0..60, and centre *)
(* 1439 selects 1379..1439 followed by 0..60.                              *)
(***************************************************************************)
C3_Original ==
    selOutcome = "returned" =>
        /\ selMinute = 0 => selResult = Ascending(1380, 1439) \o Ascending(0, 60)
        /\ selMinute = 1439 => selResult = Ascending(1379, 1439) \o Ascending(0, 60)

(***************************************************************************)
(* C3 amended: centre 0 selects 1380..1439 followed by 0..60, and centre   *)
(* 1439 selects 1379..1439 followed by 0..59.                              *)
(***************************************************************************)
C3_WrapWindows ==
    selOutcome = "returned" =>
        /\ selMinute = 0 => selResult = Ascending(1380, 1439) \o Ascending(0, 60)
        /\ selMinute = 1439 => selResult = Ascending(1379, 1439) \o Ascending(0, 59)

C3_Witness ==
    /\ selOutcome = "returned"
    /\ selMinute = 1439
    /\ selResult[Len(selResult)] = 59

(***************************************************************************)
(* C4: after a completed load every trip lies at exactly one place of the  *)
(* departure buckets, in the bucket of its start minute, and at exactly    *)
(* one place of the arrival buckets, in the bucket of its end minute; the  *)
(* bucket lengths add up to the number of trips on either side.  Trips of  *)
(* stations the registry does not hold are no exception.                   *)
(***************************************************************************)
C4_OneBucketEach ==
    Loaded =>
        \A allDep \in {Contents(departuresByMinute)} :
        \A allArr \in {Contents(arrivalsByMinute)} :
            /\ \A i \in DOMAIN trips :
                  /\ Occurrences(allDep, trips[i]) = 1
                  /\ InBucket(departuresByMinute,
                              MinuteOf(trips[i].started_at), trips[i]) = 1
                  /\ Occurrences(allArr, trips[i]) = 1
                  /\ InBucket(arrivalsByMinute,
                              MinuteOf(trips[i].ended_at), trips[i]) = 1
            /\ Len(allDep) = Len(trips)
            /\ Len(allArr) = Len(trips)
            /\ Len(trips) = Len(data)

C4_Witness ==
    /\ Loaded
    /\ stations # <<>>
    /\ Len(trips) = 2
    /\ \E i \in DOMAIN trips :
          /\ trips[i].start_station_id \notin RegistryIds
          /\ InBucket(departuresByMinute, MinuteOf(trips[i].started_at), trips[i]) = 1

(***************************************************************************)
(* C5: after a completed load the unfiltered departures map counts, per    *)
(* start station, the trips of all 1440 departure buckets, the unfiltered  *)
(* arrivals map counts per end station the trips of all 1440 arrival       *)
(* buckets, and these are the maps shown while the filter is -1.           *)
(***************************************************************************)
StartCountsOf(all) ==
    [k \in {all[p].start_station_id : p \in DOMAIN all} |->
        Cardinality({p \in DOMAIN all : all[p].start_station_id = k})]
EndCountsOf(all) ==
    [k \in {all[p].end_station_id : p \in DOMAIN all} |->
        Cardinality({p \in DOMAIN all : all[p].end_station_id = k})]

C5_UnfilteredIsAllBuckets ==
    Loaded =>
        \A allDep \in {StartCountsOf(Contents(departuresByMinute))} :
        \A allArr \in {EndCountsOf(Contents(arrivalsByMinute))} :
            /\ departures = allDep
            /\ arrivals = allArr
            /\ timeFilter = Unfiltered =>
                  /\ filteredDepartures = allDep
                  /\ filteredArrivals = allArr

C5_Witness ==
    /\ Loaded
    /\ timeFilter = Unfiltered
    /\ Len(trips) = 2
    /\ \E k \in DOMAIN filteredDepartures : filteredDepartures[k] = 2

(***************************************************************************)
(* C6: in every state the traffic view holds one record per station of the *)
(* registry, in registry order, and none for another id; a record's        *)
(* arrivals and departures are the counts of the current maps for its id,  *)
(* 0 when the id is absent, and its totalTraffic is their sum.  A trip of  *)
(* a station the registry does not hold is counted in the map under that   *)
(* id and has no record.                                                   *)
(***************************************************************************)
C6_TrafficView ==
    /\ Len(filteredStations) = Len(stations)
    /\ \A i \in DOMAIN filteredStations :
          LET r == filteredStations[i]
          IN  /\ r.id = stations[i].id
              /\ r.arrivals = (IF r.id \in DOMAIN filteredArrivals
                               THEN filteredArrivals[r.id] ELSE 0)
              /\ r.departures = (IF r.id \in DOMAIN filteredDepartures
                                 THEN filteredDepartures[r.id] ELSE 0)
              /\ r.totalTraffic = r.arrivals + r.departures
    /\ (Loaded /\ timeFilter = Unfiltered) =>
          \A i \in DOMAIN trips :
              /\ trips[i].start_station_id \in DOMAIN filteredDepartures
              /\ trips[i].end_station_id \in DOMAIN filteredArrivals

C6_Witness ==
    /\ Loaded
    /\ timeFilter = Unfiltered
    /\ Len(filteredStations) = 2
    /\ \E i \in DOMAIN trips :
          /\ trips[i].start_station_id \in DOMAIN filteredDepartures
          /\ trips[i].start_station_id \notin
                {filteredStations[j].id : j \in DOMAIN filteredStations}
    /\ \E j \in DOMAIN filteredStations :
          /\ filteredStations[j].arrivals > 0
          /\ filteredStations[j].departures > 0
    /\ \E j \in DOMAIN filteredStations : filteredStations[j].totalTraffic = 0

(***************************************************************************)
(* C7: a filter value outside SliderMin..SliderMax makes filterByMinute    *)
(* fail with an invalid-argument condition instead of returning buckets.   *)
(***************************************************************************)
C7_FailFast ==
    (selOutcome # "pending" /\ selMinute \notin SliderMin..SliderMax) =>
        selOutcome = "threw"

(***************************************************************************)
(* C8: after a completed load a change of the filter leaves the buckets,   *)
(* the trips, the unfiltered maps and the registry as they are, and the    *)
(* maps and records it produces are those that belong to the new filter    *)
(* value alone: the all-time counts for -1, the window counts otherwise.   *)
(***************************************************************************)
MapsFor(f) ==
    IF f = Unfiltered
    THEN [dep |-> StartCounts(DOMAIN trips), arr |-> EndCounts(DOMAIN trips)]
    ELSE [dep |-> StartCounts(DepartingIn(f)), arr |-> EndCounts(ArrivingIn(f))]
RecordsFor(maps) ==
    [i \in DOMAIN stations |->
        LET id == stations[i].id
            a  == IF id \in DOMAIN maps.arr THEN maps.arr[id] ELSE 0
            d  == IF id \in DOMAIN maps.dep THEN maps.dep[id] ELSE 0
        IN  [stations[i] EXCEPT !.arrivals = a, !.departures = d,
                                !.totalTraffic = a + d]]

C8_FilterLifecycle ==
    [][(Loaded /\ timeFilter' # timeFilter) =>
          /\ UNCHANGED <<departuresByMinute, arrivalsByMinute, trips,
                         departures, arrivals, stations>>
          /\ filteredDepartures' = MapsFor(timeFilter').dep
          /\ filteredArrivals' = MapsFor(timeFilter').arr
          /\ filteredStations' = RecordsFor(MapsFor(timeFilter'))]_vars

\* A window that shows some of the loaded trips and not all of them.
C8_Witness ==
    /\ Loaded
    /\ timeFilter # Unfiltered
    /\ Len(trips) = 2
    /\ filteredDepartures # departures
    /\ \E j \in DOMAIN filteredStations : filteredStations[j].totalTraffic > 0

(***************************************************************************)
(* C9: the filter value 1440 is accepted and gives the departures and      *)
(* arrivals maps of the window around minute 0.                            *)
(***************************************************************************)
C9_Slider1440IsMidnight ==
    (Loaded /\ timeFilter = SliderMax) =>
        /\ filteredDepartures = StartCounts(DepartingIn(0))
        /\ filteredArrivals = EndCounts(ArrivingIn(0))

C9_Witness ==
    /\ Loaded
    /\ timeFilter = SliderMax
    /\ \E i \in DOMAIN trips :
          /\ MinuteOf(trips[i].started_at) = 1430
          /\ trips[i].start_station_id \in DOMAIN filteredDepartures
    /\ \E i \in DOMAIN trips :
          /\ MinuteOf(trips[i].started_at) = 0
          /\ trips[i].start_station_id \in DOMAIN filteredDepartures

(***************************************************************************)
(* C10: when the load meets a row with a timestamp that has no minute of   *)
(* day, the error is logged, the rows before it are in the departure and   *)
(* arrival buckets, and trips, the unfiltered maps and the stations'       *)
(* totals keep their initial values; the unfiltered view then shows zero   *)
(* traffic for every station.                                              *)
(***************************************************************************)
BadRow(row) == ~row.started_at.parseable \/ ~row.ended_at.parseable
FirstBad == CHOOSE k \in DOMAIN data :
                BadRow(data[k]) /\ \A j \in 1..(k - 1) : ~BadRow(data[j])
Converted(row) ==
    [row EXCEPT !.started_at = [valid |-> TRUE, hours |-> @.hh, minutes |-> @.mm],
                !.ended_at = [valid |-> TRUE, hours |-> @.hh, minutes |-> @.mm]]

C10_AbortedLoad ==
    (pc = "done" /\ \E k \in DOMAIN data : BadRow(data[k])) =>
        /\ DemandError \in consoleErrors
        /\ \A j \in 1..(FirstBad - 1) :
              /\ InBucket(departuresByMinute, MinuteOf(Converted(data[j]).started_at),
                          Converted(data[j])) = 1
              /\ InBucket(arrivalsByMinute, MinuteOf(Converted(data[j]).ended_at),
                          Converted(data[j])) = 1
        /\ trips = <<>>
        /\ departures = EmptyMap
        /\ arrivals = EmptyMap
        /\ \A i \in DOMAIN stations :
              /\ stations[i].arrivals = 0
              /\ stations[i].departures = 0
              /\ stations[i].totalTraffic = 0
        /\ timeFilter = Unfiltered =>
              \A i \in DOMAIN filteredStations :
                  filteredStations[i].totalTraffic = 0

C10_Witness ==
    /\ pc = "done"
    /\ DemandError \in consoleErrors
    /\ Len(data) = 2
    /\ FirstBad = 2
    /\ timeFilter # Unfiltered
    /\ \E i \in DOMAIN filteredStations : filteredStations[i].totalTraffic > 0

====
